---- MODULE Spec2Model ----
(***************************************************************************)
(* PartitionOffsetsRegister (src/partition_offsets/register.rs): the map   *)
(* of per-partition lag estimators behind a two-level tokio RwLock, the    *)
(* ingestion task spawned by new() that drains the inbound channel, and    *)
(* the query methods that run concurrently with it.                        *)
(* ClusterStatusEmitter (src/cluster_status_emitter.rs): the task spawned  *)
(* by spawn() that fetches the cluster metadata at every tick and offers a *)
(* snapshot to a channel of capacity CHANNEL_SIZE, until it is shut down.  *)
(***************************************************************************)
EXTENDS Integers, Sequences, FiniteSets, TLC

VARIABLES
    open,        \* at least one Sender of the inbound channel still exists
    chan,        \* observations buffered in the inbound channel, oldest first
    estimators,  \* the HashMap: TopicPartition -> history of its estimator
    mapLock,     \* the RwLock around the HashMap
    estLock,     \* the RwLock around each estimator
    ing,         \* the ingestion task: its position and the observation in hand
    rd,          \* the reader tasks: position, method, arguments, result
    us,          \* the locals of get_usage of each reader
    sent,        \* history variable: every observation sent, in send order
    applied,     \* history variable: every observation whose update completed
    created,     \* history variable: how many estimators were inserted per key
    em,          \* the emitter task: its position, the snapshot in hand, outcomes
    out,         \* snapshots buffered in the emitter's output channel
    outRx,       \* the Receiver of the output channel, as its owner has left it
    shutdown     \* the shutdown broadcast, as the emitter's shutdown_rx sees it

regvars == <<open, chan, estimators, mapLock, estLock, ing, rd, us, sent, applied, created>>

emvars == <<em, out, outRx, shutdown>>

vars == <<regvars, emvars>>

----------------------------------------------------------------------------
\* Bounds of the model.

\* How many observations the producers send before they can only close: under
\* DataSpec, under Spec and under FairSpec.
MaxSends == 3
ConcSends == 2
FairSends == 1

\* offsets_history: the capacity of every estimator's history.
Capacity == 2

\* Where the count of consecutive failed metadata fetches stops growing.
MaxFails == 2

\* const CHANNEL_SIZE: usize = 1;
CHANNEL_SIZE == 1

\* The snapshots a successful fetch can build.
ClusterStatuses == {"m1", "m2"}

\* The partitions observed and queried.
TopicPartitions ==
    {[topic |-> "t", partition |-> 0], [topic |-> "t", partition |-> 1]}

\* The reader tasks.
Readers == {"r1", "r2"}

\* latest_offset values of the observations, and consumed_offset values of the
\* queries (below, between, equal to and above them).
Offsets == {1, 3}
ConsumedOffsets == {0, 1, 2, 3, 4}

\* consumed_offset_datetime values of the queries.
ConsumedAts == {0, 9}

\* The same where only the interleaving matters.
ConcOffsets == {3}
ConcConsumed == {2}

\* The methods called where only the progress of the locks matters: the four
\* query methods take and drop the same locks in the same way.
FairOps == {"estimate_offset_lag", "get_latest_offset"}
DataReader == "r1"

None == "none"
NoTP == [topic |-> "", partition |-> 0]
NoPO == [tp |-> NoTP, latest_offset |-> 0, read_datetime |-> 0]

----------------------------------------------------------------------------
\* tokio::sync::RwLock: fair and write-preferring. Requests that cannot be
\* served at once wait in a FIFO queue; a release hands the lock to the head
\* of the queue for as long as the head is compatible with the holders.

FreeLock == [wr |-> None, rds |-> {}, q |-> <<>>]

CanGrant(l, m) ==
    IF m = "W" THEN l.wr = None /\ l.rds = {} ELSE l.wr = None

Grant(l, p, m) ==
    IF m = "W" THEN [l EXCEPT !.wr = p] ELSE [l EXCEPT !.rds = @ \cup {p}]

RECURSIVE Drain(_)
Drain(l) ==
    IF l.q # <<>> /\ CanGrant(l, Head(l.q).m)
    THEN Drain([Grant(l, Head(l.q).p, Head(l.q).m) EXCEPT !.q = Tail(l.q)])
    ELSE l

Request(l, p, m) ==
    IF l.q = <<>> /\ CanGrant(l, m)
    THEN Grant(l, p, m)
    ELSE [l EXCEPT !.q = Append(@, [p |-> p, m |-> m])]

Release(l, p) ==
    Drain([l EXCEPT !.wr = IF @ = p THEN None ELSE @, !.rds = @ \ {p}])

Downgrade(l, p) ==
    Drain([l EXCEPT !.wr = None, !.rds = {p}])

Holds(l, p, m) ==
    IF m = "W" THEN l.wr = p ELSE p \in l.rds

Queued(l, p) == \E i \in 1..Len(l.q) : l.q[i].p = p

\* The .await of a request completes: the guard is held, the wait is over.
Granted(l, p, m) == Holds(l, p, m) /\ ~Queued(l, p)

----------------------------------------------------------------------------
\* PartitionLagEstimator and KnownOffset (lag_estimator.rs, known_offset.rs).

Ok(v) == [ok |-> TRUE, val |-> v]
Err(e) == [ok |-> FALSE, err |-> e]
NoRes == Err("none")

LagEstimatorNotFound(tp) ==
    [ok |-> FALSE, err |-> "LagEstimatorNotFound",
     topic |-> tp.topic, partition |-> tp.partition]

KnownOffset(o, t) == [offset |-> o, at |-> t]

EstNew == <<>>

\* update(), first half: the oldest sample leaves a full history.
EstEvict(h) == IF Len(h) >= Capacity THEN Tail(h) ELSE h

\* update(), second half: the new sample is appended.
EstAppend(h, o, t) == Append(h, KnownOffset(o, t))

EstUpdate(h, o, t) == EstAppend(EstEvict(h), o, t)

EstEarliestOffset(h) == IF h = <<>> THEN Err("NoHistory") ELSE Ok(h[1])

EstLatestOffset(h) == IF h = <<>> THEN Err("NoHistory") ELSE Ok(h[Len(h)])

EstEstimateOffsetLag(h, consumed) ==
    IF h = <<>> THEN Err("NoHistory")
    ELSE IF consumed >= h[Len(h)].offset THEN Ok(0)
    ELSE Ok(h[Len(h)].offset - consumed)

\* The index of the nearest sample at or below (dir = -1) or at or above
\* (dir = 1) the consumed offset; 0 when there is none.
EstNearest(h, consumed, dir) ==
    LET cand == {i \in 1..Len(h) : (h[i].offset - consumed) * dir >= 0}
    IN  IF cand = {} THEN 0
        ELSE CHOOSE i \in cand :
                \A j \in cand :
                    \/ (h[i].offset - h[j].offset) * dir < 0
                    \/ (h[i].offset = h[j].offset /\ i >= j)

EstEstimateTimeLag(h, consumed, consumedAt) ==
    IF h = <<>> THEN Err("NoHistory")
    ELSE IF Len(h) < 2 THEN Err("InsufficientHistory")
    ELSE
      LET n  == Len(h)
          lo == EstNearest(h, consumed, -1)
          hi == EstNearest(h, consumed, 1)
          i1 == IF lo = 0 THEN 1 ELSE IF hi = 0 THEN n - 1 ELSE lo
          i2 == IF lo = 0 THEN 2 ELSE IF hi = 0 THEN n ELSE hi
          exact == lo # 0 /\ hi # 0 /\ h[lo].offset = h[hi].offset
          tEst == IF exact THEN h[hi].at
                  ELSE h[i1].at + ((consumed - h[i1].offset) * (h[i2].at - h[i1].at))
                                    \div (h[i2].offset - h[i1].offset)
          lag == h[n].at - tEst
      IN  IF ~exact /\ h[i1].offset = h[i2].offset THEN Err("DegenerateHistory")
          ELSE Ok(IF lag < 0 THEN 0 ELSE lag)

\* usage_percent() times Capacity: len / capacity * 100.
EstUsageScaled(h) == Len(h) * 100

----------------------------------------------------------------------------
\* The state after PartitionOffsetsRegister::new: an empty map, the ingestion
\* task about to receive, no reader running; and after
\* ClusterStatusEmitter::spawn: an empty output channel, the task about to
\* fetch, no shutdown broadcast.

IdleReader ==
    [pc |-> "idle", op |-> None, tp |-> NoTP, arg |-> 0, at |-> 0, res |-> NoRes]
IdleUsage == [count |-> 0, todo |-> {}, seen |-> 0, sum |-> 0, min |-> 0, max |-> 0]

Init ==
    /\ open = TRUE
    /\ chan = <<>>
    /\ estimators = <<>>
    /\ mapLock = FreeLock
    /\ estLock = [k \in TopicPartitions |-> FreeLock]
    /\ ing = [pc |-> "recv", po |-> NoPO]
    /\ rd = [r \in Readers |-> IdleReader]
    /\ us = [r \in Readers |-> IdleUsage]
    /\ sent = <<>>
    /\ applied = <<>>
    /\ created = [k \in TopicPartitions |-> 0]
    /\ em = [pc |-> "fetch", status |-> None, res |-> None, fails |-> 0]
    /\ out = <<>>
    /\ outRx = "open"
    /\ shutdown = None

----------------------------------------------------------------------------
\* The producers: Sender::send and the drop of the last Sender. The clock of
\* read_datetime advances by two between observations, so that the midpoint of
\* two of them is a time of the model.

Send(k, o, max) ==
    /\ open
    /\ Len(sent) < max
    /\ LET po == [tp |-> k, latest_offset |-> o, read_datetime |-> 2 * (Len(sent) + 1)]
       IN  /\ chan' = Append(chan, po)
           /\ sent' = Append(sent, po)
    /\ UNCHANGED <<emvars, open, estimators, mapLock, estLock, ing, rd, us, applied, created>>

Close ==
    /\ open
    /\ open' = FALSE
    /\ UNCHANGED <<emvars, chan, estimators, mapLock, estLock, ing, rd, us, sent, applied, created>>

----------------------------------------------------------------------------
\* The ingestion task.

\* rx.recv() yields Some(po): the oldest buffered observation.
IngRecvEnabled == chan # <<>>
RecvNewest(c) == [po |-> c[Len(c)], rest |-> SubSeq(c, 1, Len(c) - 1)]
RecvOldest(c) == [po |-> Head(c), rest |-> Tail(c)]

\* rx.recv() yields None, which disables the only branch of the select!.
IngExitEnabledEmpty == chan = <<>>
IngExitEnabledClosed == ~open
IngExitEnabled == chan = <<>> /\ ~open

\* if !w_guard.contains_key(&k)
IngNeedsInsertAlways(k) == TRUE
IngNeedsInsertInverted(k) == k \in DOMAIN estimators
IngNeedsInsert(k) == k \notin DOMAIN estimators

\* w_guard.insert(k.clone(), RwLock::new(PartitionLagEstimator::new(..)))
MapInsert(m, k, v) == [x \in DOMAIN m \cup {k} |-> IF x = k THEN v ELSE m[x]]

\* w_guard.downgrade()
IngKeepWrite(l) == l
IngDowngrade(l) == Downgrade(l, "ing")

\* .write() on the estimator's lock
IngEstModeShared == "R"
IngEstMode == "W"

IngRecv ==
    /\ ing.pc = "recv"
    /\ IngRecvEnabled
    /\ ing' = [pc |-> "map_w", po |-> RecvOldest(chan).po]
    /\ chan' = RecvOldest(chan).rest
    /\ mapLock' = Request(mapLock, "ing", "W")
    /\ UNCHANGED <<emvars, open, estimators, estLock, rd, us, sent, applied, created>>

IngExit ==
    /\ ing.pc = "recv"
    /\ IngExitEnabled
    /\ ing' = [ing EXCEPT !.pc = "done"]
    /\ UNCHANGED <<emvars, open, chan, estimators, mapLock, estLock, rd, us, sent, applied, created>>

\* Under the map's write lock: contains_key and insert; then the downgrade,
\* which admits the readers that wait for the map.
IngInsert ==
    /\ ing.pc = "map_w"
    /\ Granted(mapLock, "ing", "W")
    /\ LET k == ing.po.tp
           ins == IngNeedsInsert(k)
       IN  /\ estimators' = IF ins THEN MapInsert(estimators, k, EstNew) ELSE estimators
           /\ created' = IF ins THEN [created EXCEPT ![k] = @ + 1] ELSE created
    /\ mapLock' = IngDowngrade(mapLock)
    /\ ing' = [ing EXCEPT !.pc = "get"]
    /\ UNCHANGED <<emvars, open, chan, estLock, rd, us, sent, applied>>

\* Under the downgraded guard: get(&k), then the request for the estimator's
\* write lock, or the panic when get finds nothing. A reader on another worker
\* thread can run between the downgrade and this request.
IngGet ==
    /\ ing.pc = "get"
    /\ IF ing.po.tp \in DOMAIN estimators
       THEN /\ estLock' = [estLock EXCEPT ![ing.po.tp] = Request(@, "ing", IngEstMode)]
            /\ mapLock' = mapLock
            /\ ing' = [ing EXCEPT !.pc = "est_w"]
       ELSE /\ estLock' = estLock
            /\ mapLock' = Release(mapLock, "ing")
            /\ ing' = [ing EXCEPT !.pc = "panicked"]
    /\ UNCHANGED <<emvars, open, chan, estimators, rd, us, sent, applied, created>>

\* update() under the estimator's write lock: the eviction ...
IngUpdateEvict ==
    /\ ing.pc = "est_w"
    /\ Granted(estLock[ing.po.tp], "ing", IngEstMode)
    /\ estimators' = [estimators EXCEPT ![ing.po.tp] = EstEvict(@)]
    /\ ing' = [ing EXCEPT !.pc = "append"]
    /\ UNCHANGED <<emvars, open, chan, mapLock, estLock, rd, us, sent, applied, created>>

\* ... and the append; then both guards are dropped, the estimator's first.
IngUpdateAppend ==
    /\ ing.pc = "append"
    /\ estimators' = [estimators EXCEPT ![ing.po.tp] =
                         EstAppend(@, ing.po.latest_offset, ing.po.read_datetime)]
    /\ applied' = Append(applied, ing.po)
    /\ estLock' = [estLock EXCEPT ![ing.po.tp] = Release(@, "ing")]
    /\ mapLock' = Release(mapLock, "ing")
    /\ ing' = [pc |-> "recv", po |-> NoPO]
    /\ UNCHANGED <<emvars, open, chan, rd, us, sent, created>>

IngStep ==
    IngRecv \/ IngExit \/ IngInsert \/ IngGet \/ IngUpdateEvict \/ IngUpdateAppend

----------------------------------------------------------------------------
\* The query methods: estimate_offset_lag, estimate_time_lag,
\* get_earliest_offset, get_latest_offset.

LagOps == {"estimate_offset_lag", "estimate_time_lag"}
OffsetOps == {"get_earliest_offset", "get_latest_offset"}
QueryOps == LagOps \cup OffsetOps

\* What each method asks of the estimator it found.
RegQuerySwallow(op, h, arg, at) ==
    CASE op = "estimate_offset_lag" -> EstEstimateOffsetLag(h, arg)
      [] op = "estimate_time_lag"   ->
            IF EstEstimateTimeLag(h, arg, at).ok THEN EstEstimateTimeLag(h, arg, at)
            ELSE Ok(0)
      [] op = "get_earliest_offset" -> EstEarliestOffset(h)
      [] op = "get_latest_offset"   -> EstLatestOffset(h)
RegQueryArgsSwapped(op, h, arg, at) ==
    CASE op = "estimate_offset_lag" -> EstEstimateOffsetLag(h, arg)
      [] op = "estimate_time_lag"   -> EstEstimateTimeLag(h, at, arg)
      [] op = "get_earliest_offset" -> EstEarliestOffset(h)
      [] op = "get_latest_offset"   -> EstLatestOffset(h)
RegQuerySwapped(op, h, arg, at) ==
    CASE op = "estimate_offset_lag" -> EstEstimateOffsetLag(h, arg)
      [] op = "estimate_time_lag"   -> EstEstimateTimeLag(h, arg, at)
      [] op = "get_earliest_offset" -> EstEarliestOffset(h)
      [] op = "get_latest_offset"   -> EstEarliestOffset(h)
RegQueryStale(op, h, arg, at) ==
    CASE op = "estimate_offset_lag" -> EstEstimateOffsetLag(SubSeq(h, 1, IF h = <<>> THEN 0 ELSE 1), arg)
      [] op = "estimate_time_lag"   -> EstEstimateTimeLag(h, arg, at)
      [] op = "get_earliest_offset" -> EstEarliestOffset(h)
      [] op = "get_latest_offset"   -> EstLatestOffset(h)
RegQuery(op, h, arg, at) ==
    CASE op = "estimate_offset_lag" -> EstEstimateOffsetLag(h, arg)
      [] op = "estimate_time_lag"   -> EstEstimateTimeLag(h, arg, at)
      [] op = "get_earliest_offset" -> EstEarliestOffset(h)
      [] op = "get_latest_offset"   -> EstLatestOffset(h)

\* self.estimators.read().await
RdStart(r, op, tp, arg, at) ==
    /\ rd[r].pc = "idle"
    /\ rd' = [rd EXCEPT ![r] = [pc |-> "map_r", op |-> op, tp |-> tp,
                                arg |-> arg, at |-> at, res |-> NoRes]]
    /\ mapLock' = Request(mapLock, r, "R")
    /\ UNCHANGED <<emvars, open, chan, estimators, estLock, ing, us, sent, applied, created>>

\* .get(topic_partition).ok_or(LagEstimatorNotFound(..))?.read().await
RdLookupCreating(r) ==
    /\ rd[r].pc = "map_r"
    /\ Granted(mapLock, r, "R")
    /\ estimators' = IF rd[r].tp \in DOMAIN estimators THEN estimators
                     ELSE MapInsert(estimators, rd[r].tp, EstNew)
    /\ estLock' = [estLock EXCEPT ![rd[r].tp] = Request(@, r, "R")]
    /\ rd' = [rd EXCEPT ![r].pc = "est_r"]
    /\ UNCHANGED <<emvars, open, chan, mapLock, ing, us, sent, applied, created>>

RdLookup(r) ==
    /\ rd[r].pc = "map_r"
    /\ Granted(mapLock, r, "R")
    /\ IF rd[r].tp \in DOMAIN estimators
       THEN /\ estLock' = [estLock EXCEPT ![rd[r].tp] = Request(@, r, "R")]
            /\ rd' = [rd EXCEPT ![r].pc = "est_r"]
            /\ mapLock' = mapLock
       ELSE /\ rd' = [rd EXCEPT ![r].pc = "ret",
                                ![r].res = LagEstimatorNotFound(rd[r].tp)]
            /\ mapLock' = Release(mapLock, r)
            /\ estLock' = estLock
    /\ UNCHANGED <<emvars, open, chan, estimators, ing, us, sent, applied, created>>

\* .estimate_offset_lag(..) and its siblings, under the estimator's read lock
RdQuery(r) ==
    /\ rd[r].pc = "est_r"
    /\ Granted(estLock[rd[r].tp], r, "R")
    /\ rd' = [rd EXCEPT ![r].pc = "have",
                        ![r].res = RegQuery(rd[r].op, estimators[rd[r].tp], rd[r].arg, rd[r].at)]
    /\ UNCHANGED <<emvars, open, chan, estimators, mapLock, estLock, ing, us, sent, applied, created>>

\* The end of the statement drops the estimator's guard, then the map's.
RdRelease(r) ==
    /\ rd[r].pc = "have"
    /\ estLock' = [estLock EXCEPT ![rd[r].tp] = Release(@, r)]
    /\ mapLock' = Release(mapLock, r)
    /\ rd' = [rd EXCEPT ![r].pc = "ret"]
    /\ UNCHANGED <<emvars, open, chan, estimators, ing, us, sent, applied, created>>

\* The caller takes the result.
RdReturn(r) ==
    /\ rd[r].pc = "ret"
    /\ rd' = [rd EXCEPT ![r] = IdleReader]
    /\ us' = [us EXCEPT ![r] = IdleUsage]
    /\ UNCHANGED <<emvars, open, chan, estimators, mapLock, estLock, ing, sent, applied, created>>

----------------------------------------------------------------------------
\* get_usage.

\* f64::MAX and f64::MIN: above and below every usage.
F64Max == 100 * Capacity + 1
F64Min == 0 - F64Max

UsageResult(u) ==
    Ok([min |-> u.min, max |-> u.max, sum |-> u.sum, count |-> u.count])

\* let count = self.estimators.read().await.len();
UsStart(r) ==
    /\ rd[r].pc = "idle"
    /\ rd' = [rd EXCEPT ![r] = [IdleReader EXCEPT !.pc = "u_count", !.op = "get_usage"]]
    /\ mapLock' = Request(mapLock, r, "R")
    /\ UNCHANGED <<emvars, open, chan, estimators, estLock, ing, us, sent, applied, created>>

\* The guard of the count is a temporary of its statement: it is dropped
\* before the second read() is requested, not kept beside it. The ingestion
\* task can take the map's write lock between the two.
UsKeepCountGuard(l, r) == l
UsDropCountGuard(l, r) == Release(l, r)

\* .len() under the first guard; if count == 0 { return zeros }
UsCount(r) ==
    /\ rd[r].pc = "u_count"
    /\ Granted(mapLock, r, "R")
    /\ LET count == Cardinality(DOMAIN estimators)
       IN  IF count = 0
           THEN /\ rd' = [rd EXCEPT ![r].pc = "ret",
                                    ![r].res = UsageResult(IdleUsage)]
                /\ us' = us
           ELSE /\ rd' = [rd EXCEPT ![r].pc = "u_again"]
                /\ us' = [us EXCEPT ![r] = [IdleUsage EXCEPT !.count = count,
                                                             !.min = F64Max,
                                                             !.max = F64Min]]
    /\ mapLock' = UsDropCountGuard(mapLock, r)
    /\ UNCHANGED <<emvars, open, chan, estimators, estLock, ing, sent, applied, created>>

\* self.estimators.read().await, a second time, for the iteration
UsReadAgain(r) ==
    /\ rd[r].pc = "u_again"
    /\ rd' = [rd EXCEPT ![r].pc = "u_iter"]
    /\ mapLock' = Request(mapLock, r, "R")
    /\ UNCHANGED <<emvars, open, chan, estimators, estLock, ing, us, sent, applied, created>>

\* The aggregate once the iteration is over; the map's guard is dropped.
UsFinish(r, u) ==
    /\ rd' = [rd EXCEPT ![r].pc = "ret", ![r].tp = NoTP, ![r].res = UsageResult(u)]
    /\ us' = [us EXCEPT ![r] = u]
    /\ mapLock' = Release(mapLock, r)

\* for (_, est_rwlock) in self.estimators.read().await.iter()
UsIterBegin(r) ==
    /\ rd[r].pc = "u_iter"
    /\ Granted(mapLock, r, "R")
    /\ IF DOMAIN estimators = {}
       THEN UsFinish(r, us[r]) /\ estLock' = estLock
       ELSE \E k \in DOMAIN estimators :
               /\ rd' = [rd EXCEPT ![r].pc = "u_est", ![r].tp = k]
               /\ us' = [us EXCEPT ![r].todo = DOMAIN estimators]
               /\ estLock' = [estLock EXCEPT ![k] = Request(@, r, "R")]
               /\ mapLock' = mapLock
    /\ UNCHANGED <<emvars, open, chan, estimators, ing, sent, applied, created>>

\* let curr = est_rwlock.read().await.usage_percent(); sum, max, min
UsVisit(r) ==
    /\ rd[r].pc = "u_est"
    /\ Granted(estLock[rd[r].tp], r, "R")
    /\ LET k == rd[r].tp
           curr == EstUsageScaled(estimators[k])
           u == [us[r] EXCEPT !.todo = @ \ {k},
                              !.seen = @ + 1,
                              !.sum = @ + curr,
                              !.max = IF curr > @ THEN curr ELSE @,
                              !.min = IF curr < @ THEN curr ELSE @]
       IN  IF u.todo = {}
           THEN /\ UsFinish(r, u)
                /\ estLock' = [estLock EXCEPT ![k] = Release(@, r)]
           ELSE \E k2 \in u.todo :
                   /\ rd' = [rd EXCEPT ![r].tp = k2]
                   /\ us' = [us EXCEPT ![r] = u]
                   /\ estLock' = [estLock EXCEPT ![k] = Release(@, r),
                                                 ![k2] = Request(@, r, "R")]
                   /\ mapLock' = mapLock
    /\ UNCHANGED <<emvars, open, chan, estimators, ing, sent, applied, created>>

----------------------------------------------------------------------------
\* The steps a started call takes on its own.
QueryStep(r) ==
    \/ RdLookup(r)
    \/ RdQuery(r)
    \/ RdRelease(r)
    \/ RdReturn(r)

UsageStep(r) ==
    \/ UsCount(r)
    \/ UsReadAgain(r)
    \/ UsIterBegin(r)
    \/ UsVisit(r)

RdStep(r) == QueryStep(r) \/ UsageStep(r)

\* The register under concurrent readers: every method, both partitions.
Next ==
    \/ \E k \in TopicPartitions, o \in ConcOffsets : Send(k, o, ConcSends)
    \/ Close
    \/ IngStep
    \/ \E r \in Readers, op \in QueryOps, tp \in TopicPartitions, a \in ConcConsumed :
          RdStart(r, op, tp, a, 0)
    \/ \E r \in Readers : UsStart(r)
    \/ \E r \in Readers : RdStep(r)

Spec == Init /\ [][Next]_vars

\* The same under the scheduling tokio guarantees: a task that can run is
\* eventually polled. Producers and callers owe nothing: no fairness on Send,
\* Close or the start of a call.
FairNext ==
    \/ \E k \in TopicPartitions, o \in ConcOffsets : Send(k, o, FairSends)
    \/ Close
    \/ IngStep
    \/ \E r \in Readers, op \in FairOps, tp \in TopicPartitions, a \in ConcConsumed :
          RdStart(r, op, tp, a, 0)
    \/ \E r \in Readers : UsStart(r)
    \/ \E r \in Readers : RdStep(r)

Fairness == WF_vars(IngStep) /\ \A r \in Readers : WF_vars(RdStep(r))

FairSpec == Init /\ [][FairNext]_vars /\ Fairness

\* One caller against the ingestion task, over histories that fill up and
\* rotate and over consumed offsets around the recorded ones.
DataNext ==
    \/ \E k \in TopicPartitions, o \in Offsets : Send(k, o, MaxSends)
    \/ Close
    \/ IngStep
    \/ \E tp \in TopicPartitions, a \in ConsumedOffsets :
          RdStart(DataReader, "estimate_offset_lag", tp, a, 0)
    \/ \E tp \in TopicPartitions, a \in ConsumedOffsets, at \in ConsumedAts :
          RdStart(DataReader, "estimate_time_lag", tp, a, at)
    \/ \E op \in OffsetOps, tp \in TopicPartitions :
          RdStart(DataReader, op, tp, 0, 0)
    \/ QueryStep(DataReader)

DataSpec == Init /\ [][DataNext]_vars

----------------------------------------------------------------------------
\* ClusterStatusEmitter::spawn: the task's loop. What it logs is not state.

\* fetch_metadata(None, METADATA_FETCH_TIMEOUT) is Ok(m): the snapshot is built
\* (a failed watermark fetch is only logged) and the select! is entered.
EmFetchOk(s) ==
    /\ em.pc = "fetch"
    /\ em' = [em EXCEPT !.pc = "send", !.status = s, !.res = None, !.fails = 0]
    /\ UNCHANGED <<regvars, out, outRx, shutdown>>

\* fetch_metadata is Err(e): logged, and the loop goes on to the tick.
EmFetchErrBreaks ==
    /\ em.pc = "fetch"
    /\ em' = [em EXCEPT !.pc = "done", !.res = None]
    /\ UNCHANGED <<regvars, out, outRx, shutdown>>

EmFetchErr ==
    /\ em.pc = "fetch"
    /\ em' = [em EXCEPT !.pc = "tick", !.res = None,
                        !.fails = IF @ < MaxFails THEN @ + 1 ELSE @]
    /\ UNCHANGED <<regvars, out, outRx, shutdown>>

\* sx.send_timeout(status, CHANNEL_SEND_TIMEOUT) is Ok: the channel had room.
EmSendOk ==
    /\ em.pc = "send"
    /\ outRx = "open"
    /\ Len(out) < CHANNEL_SIZE
    /\ out' = Append(out, em.status)
    /\ em' = [em EXCEPT !.pc = "tick", !.status = None, !.res = "ok"]
    /\ UNCHANGED <<regvars, outRx, shutdown>>

\* send_timeout is Err(Timeout): the channel stayed full for the whole
\* CHANNEL_SEND_TIMEOUT; the error is logged and the snapshot dropped.
EmSendTimeoutBreaks ==
    /\ em.pc = "send"
    /\ outRx = "open"
    /\ Len(out) >= CHANNEL_SIZE
    /\ em' = [em EXCEPT !.pc = "done", !.status = None, !.res = "timeout"]
    /\ UNCHANGED <<regvars, out, outRx, shutdown>>

EmSendTimeout ==
    /\ em.pc = "send"
    /\ outRx = "open"
    /\ Len(out) >= CHANNEL_SIZE
    /\ em' = [em EXCEPT !.pc = "tick", !.status = None, !.res = "timeout"]
    /\ UNCHANGED <<regvars, out, outRx, shutdown>>

\* send_timeout is Err(Closed): the Receiver is gone; logged as well.
EmSendClosed ==
    /\ em.pc = "send"
    /\ outRx = "dropped"
    /\ em' = [em EXCEPT !.pc = "tick", !.status = None, !.res = "closed"]
    /\ UNCHANGED <<regvars, out, outRx, shutdown>>

\* _ = shutdown_rx.recv() => break: the other branch of the select!, taken
\* on the broadcast unit and also when every shutdown sender is gone. The
\* task ends and drops sx.
EmShutdown ==
    /\ em.pc = "send"
    /\ shutdown # None
    /\ em' = [em EXCEPT !.pc = "done", !.status = None]
    /\ UNCHANGED <<regvars, out, outRx, shutdown>>

\* interval.tick().await completes; nothing else is awaited beside it.
EmTick ==
    /\ em.pc = "tick"
    /\ em' = [em EXCEPT !.pc = "fetch"]
    /\ UNCHANGED <<regvars, out, outRx, shutdown>>

EmStep ==
    \/ \E s \in ClusterStatuses : EmFetchOk(s)
    \/ EmFetchErr
    \/ EmSendOk
    \/ EmSendTimeout
    \/ EmSendClosed
    \/ EmShutdown
    \/ EmTick

\* The owner of the Receiver returned by spawn: recv() of a snapshot, recv()
\* of None once the task has dropped sx and the buffer is empty, and the drop
\* of the Receiver.
ConsumerRecv ==
    /\ outRx = "open"
    /\ out # <<>>
    /\ out' = Tail(out)
    /\ UNCHANGED <<regvars, em, outRx, shutdown>>

ConsumerRecvNone ==
    /\ outRx = "open"
    /\ out = <<>>
    /\ em.pc = "done"
    /\ outRx' = "ended"
    /\ UNCHANGED <<regvars, em, out, shutdown>>

ConsumerDrop ==
    /\ outRx = "open"
    /\ outRx' = "dropped"
    /\ out' = <<>>
    /\ UNCHANGED <<regvars, em, shutdown>>

\* The owner of the shutdown broadcast: send(()) and the drop of the Sender.
ShutdownSend ==
    /\ shutdown = None
    /\ shutdown' = "sent"
    /\ UNCHANGED <<regvars, em, out, outRx>>

ShutdownDrop ==
    /\ shutdown = None
    /\ shutdown' = "closed"
    /\ UNCHANGED <<regvars, em, out, outRx>>

\* The emitter with its consumer and its shutdown owner.
EmNext ==
    \/ EmStep
    \/ ConsumerRecv
    \/ ConsumerRecvNone
    \/ ConsumerDrop
    \/ ShutdownSend
    \/ ShutdownDrop

EmSpec == Init /\ [][EmNext]_vars

\* The same under the scheduling tokio guarantees: the task is eventually
\* polled when it can run, and the select!, which polls its branches in random
\* order, does not pass over a branch that is ready again and again. The
\* outcome of a fetch, the consumer and the shutdown owner owe nothing.
EmFairness == WF_vars(EmStep) /\ SF_vars(EmShutdown)

EmFairSpec == Init /\ [][EmNext]_vars /\ EmFairness

----------------------------------------------------------------------------
\* Vocabulary of the properties.

Procs == Readers \cup {"ing"}

PerKey(log, k) == SelectSeq(log, LAMBDA po : po.tp = k)

Samples(log) ==
    [i \in 1..Len(log) |-> KnownOffset(log[i].latest_offset, log[i].read_datetime)]

LastN(n, s) == IF Len(s) <= n THEN s ELSE SubSeq(s, Len(s) - n + 1, Len(s))

IsPrefix(s, t) == Len(s) <= Len(t) /\ SubSeq(t, 1, Len(s)) = s

IsSuffix(s, t) == Len(s) <= Len(t) /\ SubSeq(t, Len(t) - Len(s) + 1, Len(t)) = s

\* The history of k after every completed update and no partial one.
Committed(log, k) == LastN(Capacity, Samples(PerKey(log, k)))

Waiting(p) ==
    Queued(mapLock, p) \/ \E k \in TopicPartitions : Queued(estLock[k], p)

HoldsAny(p, l) == Holds(l, p, "R") \/ Holds(l, p, "W") \/ Queued(l, p)

\* Offsets and timestamps both grow from each sample to the next.
StrictlyIncreasing(h) ==
    \A i \in 1..(Len(h) - 1) :
        h[i].offset < h[i + 1].offset /\ h[i].at < h[i + 1].at

DistinctOffsets(h) ==
    \A i, j \in 1..Len(h) : i # j => h[i].offset # h[j].offset

----------------------------------------------------------------------------
\* C1: the ingestion loop exits only when every sender is gone and the buffer
\* is drained, and once the senders are gone it eventually exits, whatever the
\* readers do meanwhile.
C1_Termination ==
    /\ [](ing.pc = "done" => ~open /\ chan = <<>>)
    /\ (~open) ~> (ing.pc = "done")

C1_Witness ==
    /\ ing.pc = "done"
    /\ applied # <<>>
    /\ \E r \in Readers : rd[r].pc \notin {"idle", "ret"}

\* C2: when the loop has exited, every observation sent has been applied, the
\* map no longer changes, and a query returns what the full sequence of
\* observations of its partition gives.
C2_NoLoss ==
    /\ [](ing.pc = "done" =>
            /\ applied = sent
            /\ \A i \in 1..Len(sent) : sent[i].tp \in DOMAIN estimators
            /\ \A k \in DOMAIN estimators : estimators[k] = Committed(sent, k)
            /\ \A r \in Readers : rd[r].pc = "have" =>
                  rd[r].res = RegQuery(rd[r].op, Committed(sent, rd[r].tp), rd[r].arg, rd[r].at))
    /\ [][ing.pc = "done" => estimators' = estimators /\ applied' = applied]_vars

C2_Witness ==
    /\ ing.pc = "done"
    /\ Len(sent) >= 2
    /\ \E r \in Readers :
          /\ rd[r].pc = "have"
          /\ rd[r].op = "get_latest_offset"
          /\ rd[r].res = Ok(KnownOffset(sent[Len(sent)].latest_offset,
                                        sent[Len(sent)].read_datetime))

\* C3: a query for a partition that is not a key of the map ends with
\* LagEstimatorNotFound(topic, partition) and leaves the map as it was.
C3_UnknownKey ==
    [][\A r \in Readers :
          (rd[r].pc = "map_r" /\ rd'[r].pc # "map_r" /\ rd[r].tp \notin DOMAIN estimators)
          => /\ rd'[r].pc = "ret"
             /\ rd'[r].res = LagEstimatorNotFound(rd[r].tp)
             /\ estimators' = estimators]_vars

C3_Witness ==
    \E r \in Readers :
        /\ rd[r].pc = "ret"
        /\ rd[r].op \in QueryOps
        /\ rd[r].tp \notin DOMAIN estimators
        /\ DOMAIN estimators # {}
        /\ rd[r].res = LagEstimatorNotFound(rd[r].tp)

\* C4: an estimator is inserted at most once per key, exactly the inserted
\* keys are in the map, and a key of the map stays, with the estimator it has.
C4_OneEstimator ==
    /\ [](\A k \in TopicPartitions :
            /\ created[k] <= 1
            /\ (k \in DOMAIN estimators <=> created[k] = 1))
    /\ [][\A k \in DOMAIN estimators :
            k \in DOMAIN estimators' /\ created'[k] = created[k]]_vars

C4_Witness ==
    \E k \in TopicPartitions :
        /\ created[k] = 1
        /\ Len(PerKey(applied, k)) >= 2
        /\ Len(estimators[k]) >= 2

C6_AtomicUpdate ==
    \A r \in Readers :
        /\ (rd[r].pc = "est_r" /\ Holds(estLock[rd[r].tp], r, "R"))
              => estimators[rd[r].tp] = Committed(applied, rd[r].tp)
        /\ rd[r].pc = "have"
              => /\ estimators[rd[r].tp] = Committed(applied, rd[r].tp)
                 /\ rd[r].res = RegQuery(rd[r].op, Committed(applied, rd[r].tp), rd[r].arg, rd[r].at)

C6_Witness ==
    \E r \in Readers :
        /\ rd[r].pc = "est_r"
        /\ Queued(estLock[rd[r].tp], r)
        /\ ing.pc = "append"
        /\ ing.po.tp = rd[r].tp
        /\ estimators[rd[r].tp] # Committed(applied, rd[r].tp)

\* C7: per partition, the updates completed are a prefix of the observations
\* sent, in the order sent, and the history is a suffix of the updates
\* completed: samples enter the history in delivery order.
C7_DeliveryOrder ==
    \A k \in TopicPartitions :
        /\ IsPrefix(PerKey(applied, k), PerKey(sent, k))
        /\ k \in DOMAIN estimators =>
              IsSuffix(estimators[k], Samples(PerKey(applied, k)))

C7_Witness ==
    \E k \in TopicPartitions :
        /\ Len(PerKey(applied, k)) >= 2
        /\ Len(estimators[k]) >= 2
        /\ Len(chan) >= 1
        /\ chan[1].tp = k

\* C8 as stated: the loop holds the map's write lock only for an observation
\* whose key is not in the map.
C8_WriteLockOnlyToInsert ==
    ~(Holds(mapLock, "ing", "W") /\ ing.po.tp \in DOMAIN estimators)

\* C8, amended: the loop takes the map's write lock for every observation and
\* holds it for the contains-check and the insert only; the update runs under
\* shared access to the map and exclusive access to the one estimator.
C8_WriteLockDowngraded ==
    /\ Holds(mapLock, "ing", "W") => ing.pc = "map_w"
    /\ ing.pc = "map_w" => Holds(mapLock, "ing", "W") \/ Queued(mapLock, "ing")
    /\ ing.pc \in {"get", "est_w", "append"} =>
          /\ Holds(mapLock, "ing", "R")
          /\ mapLock.wr = None
          /\ \A k \in TopicPartitions \ {ing.po.tp} : ~HoldsAny("ing", estLock[k])
    /\ ing.pc = "get" => ~HoldsAny("ing", estLock[ing.po.tp])
    /\ ing.pc = "est_w" =>
          Holds(estLock[ing.po.tp], "ing", "W") \/ Queued(estLock[ing.po.tp], "ing")
    /\ ing.pc = "append" => Holds(estLock[ing.po.tp], "ing", "W")
    /\ ing.pc \in {"recv", "done"} =>
          /\ ~HoldsAny("ing", mapLock)
          /\ \A k \in TopicPartitions : ~HoldsAny("ing", estLock[k])

C8_Witness ==
    /\ ing.pc = "append"
    /\ Len(PerKey(applied, ing.po.tp)) >= 1
    /\ \E r \in Readers : Holds(mapLock, r, "R") /\ rd[r].pc = "est_r"

\* C9: a history never holds more than Capacity samples, and outside an update
\* it is the last Capacity samples applied to its partition, oldest first.
C9_BoundedHistory ==
    \A k \in DOMAIN estimators :
        /\ Len(estimators[k]) <= Capacity
        /\ ~(ing.pc = "append" /\ ing.po.tp = k) =>
              estimators[k] = LastN(Capacity, Samples(PerKey(applied, k)))

C9_Witness ==
    \E k \in DOMAIN estimators :
        /\ Len(PerKey(applied, k)) > Capacity
        /\ Len(estimators[k]) = Capacity
        /\ ing.pc = "recv"

\* C10: on a history with a sample, estimate_offset_lag is the latest sample's
\* offset less the consumed offset, and 0 from the latest offset on; it is a
\* function of the history and the consumed offset, so a repeat agrees.
C10_OffsetLag ==
    \A r \in Readers :
        (rd[r].pc = "have" /\ rd[r].op = "estimate_offset_lag"
            /\ estimators[rd[r].tp] # <<>>)
        => LET h == estimators[rd[r].tp]
               latest == h[Len(h)].offset
           IN  rd[r].res = IF rd[r].arg < latest THEN Ok(latest - rd[r].arg) ELSE Ok(0)

C10_Witness ==
    \E r \in Readers :
        /\ rd[r].pc = "have"
        /\ rd[r].op = "estimate_offset_lag"
        /\ Len(estimators[rd[r].tp]) >= 2
        /\ estimators[rd[r].tp][1].offset > rd[r].arg
        /\ estimators[rd[r].tp][Len(estimators[rd[r].tp])].offset < rd[r].arg
        /\ rd[r].res = Ok(0)

\* C11: get_usage returns (0, 0, 0, 0) of an empty map; otherwise count is the
\* number of estimators it aggregated and avg = sum / count lies between min
\* and max, also when the loop inserts a partition while get_usage runs.
C11_ConsistentUsage ==
    \A r \in Readers :
        (rd[r].pc = "ret" /\ rd[r].op = "get_usage")
        => LET v == rd[r].res.val
           IN  IF v.count = 0
               THEN v = [min |-> 0, max |-> 0, sum |-> 0, count |-> 0]
               ELSE /\ v.count = us[r].seen
                    /\ v.min * v.count <= v.sum
                    /\ v.sum <= v.max * v.count

\* C12: once the shutdown signal is broadcast the emitter task eventually
\* terminates, from any point of its loop, whatever the fetches return and
\* whatever the state of the output channel; and the consumer sees the channel
\* closed only after the task has ended and dropped its sender.
C12_ShutdownTerminates ==
    /\ (shutdown = "sent") ~> (em.pc = "done")
    /\ [](outRx = "ended" => em.pc = "done")

\* C13: a failed metadata fetch never ends the emitter task: the failing cycle
\* publishes nothing, the task goes on to the tick, the tick always completes
\* and leads to the next fetch, after any number of consecutive failures.
C13_FetchFailureContinues ==
    /\ [](em.fails > 0 => em.pc \in {"tick", "fetch"})
    /\ [](em.pc = "tick" => ENABLED EmTick)
    /\ [](em.pc = "fetch" => ENABLED EmFetchErr /\ \A s \in ClusterStatuses : ENABLED EmFetchOk(s))
    /\ [][(em.pc = "fetch" /\ em'.pc # "fetch")
            => \/ em'.pc = "send" /\ em'.fails = 0
               \/ em'.pc = "tick" /\ em'.fails > 0 /\ out' = out]_vars
    /\ [][(em.pc = "tick" /\ em' # em) => em'.pc = "fetch" /\ out' = out]_vars

C13_Witness ==
    /\ em.pc = "fetch"
    /\ em.fails = MaxFails
    /\ shutdown = "sent"
    /\ out = <<>>

\* C14: the output channel never holds more than CHANNEL_SIZE = 1 snapshots,
\* and a send attempt never blocks the task for ever: it ends by delivering the
\* snapshot, by a failure that drops it and lets the loop go on to the tick, or
\* by the shutdown branch; a timed-out or failed send alone never ends the task.
C14_BoundedSend ==
    /\ [](Len(out) <= CHANNEL_SIZE /\ Len(out) <= 1)
    /\ (em.pc = "send") ~> (em.pc # "send")
    /\ [][(em.pc = "send" /\ em'.pc # "send")
            => \/ em'.pc = "tick" /\ em'.res = "ok" /\ out' = Append(out, em.status)
               \/ em'.pc = "tick" /\ em'.res \in {"timeout", "closed"} /\ out' = out
               \/ em'.pc = "done" /\ shutdown # None /\ out' = out]_vars
    /\ [](em.res \in {"timeout", "closed"} => em.pc \in {"tick", "fetch"})

C14_Witness ==
    /\ em.pc = "tick"
    /\ em.res = "timeout"
    /\ Len(out) = CHANNEL_SIZE
    /\ shutdown = None

\* C15: while a query holds the estimator's read lock, get_latest_offset has
\* the sample of the last update completed for its partition and
\* get_earliest_offset the oldest sample still retained: never the sample of an
\* update still to come, never a sample already evicted.
C15_FreshestSample ==
    \A r \in Readers :
        LET log == Samples(PerKey(applied, rd[r].tp))
            first == IF Len(log) > Capacity THEN Len(log) - Capacity + 1 ELSE 1
        IN  (rd[r].pc = "have" /\ log # <<>>)
            => /\ rd[r].op = "get_latest_offset" => rd[r].res = Ok(log[Len(log)])
               /\ rd[r].op = "get_earliest_offset" => rd[r].res = Ok(log[first])

C15_Witness ==
    \E r \in Readers :
        /\ rd[r].pc = "have"
        /\ rd[r].op = "get_latest_offset"
        /\ Len(PerKey(applied, rd[r].tp)) >= Capacity
        /\ ing.pc = "est_w"
        /\ ing.po.tp = rd[r].tp
        /\ Queued(estLock[rd[r].tp], "ing")

\* C16: the panic of the lookup after the downgrade is unreachable: from the
\* downgrade until its guards are dropped, the key of the observation in hand
\* is in the map, whatever the readers do meanwhile.
C16_NoPanic ==
    /\ ing.pc # "panicked"
    /\ ing.pc \in {"get", "est_w", "append"} => ing.po.tp \in DOMAIN estimators

C16_Witness ==
    /\ ing.pc = "est_w"
    /\ PerKey(applied, ing.po.tp) = <<>>
    /\ \E r \in Readers :
          /\ rd[r].pc = "est_r"
          /\ rd[r].tp = ing.po.tp
          /\ Holds(mapLock, r, "R")
    /\ \E r \in Readers : rd[r].op = "get_usage" /\ Holds(mapLock, r, "R")

\* C17 as stated: whenever a query holds an estimator's read lock the history
\* has a sample; no query ends with NoHistory and get_usage never counts an
\* estimator of usage 0.
C17_NoEmptyHistorySeen ==
    \A r \in Readers :
        /\ \A k \in DOMAIN estimators :
              Holds(estLock[k], r, "R") => estimators[k] # <<>>
        /\ rd[r].res # Err("NoHistory")
        /\ us[r].seen > 0 => us[r].min > 0

\* C17, amended: a query finds an empty history only when it holds the read
\* lock of an estimator that the loop has inserted and downgraded for but not
\* yet locked for its first update; then the query methods answer NoHistory.
\* Once an update of the partition has completed, a query holding the read lock
\* finds a sample.
C17_EmptyOnlyBeforeFirstUpdate ==
    \A r \in Readers :
        /\ \A k \in DOMAIN estimators :
              (Holds(estLock[k], r, "R") /\ estimators[k] = <<>>)
              => /\ PerKey(applied, k) = <<>>
                 /\ ing.po.tp = k
                 /\ ing.pc \in {"get", "est_w"}
                 /\ ~Holds(estLock[k], "ing", "W")
        /\ (rd[r].pc = "have" /\ rd[r].res = Err("NoHistory"))
              => /\ estimators[rd[r].tp] = <<>>
                 /\ Holds(estLock[rd[r].tp], r, "R")
        /\ (rd[r].pc = "have" /\ PerKey(applied, rd[r].tp) # <<>>)
              => rd[r].res # Err("NoHistory")

C17_Witness ==
    \E r \in Readers :
        /\ rd[r].pc = "have"
        /\ rd[r].op = "get_latest_offset"
        /\ rd[r].res = Err("NoHistory")
        /\ ing.pc = "est_w"
        /\ ing.po.tp = rd[r].tp
        /\ Queued(estLock[rd[r].tp], "ing")

====
